---- MODULE Spec2Model ----
(***************************************************************************)
(* EnumLike, the key-to-self mapping constructor of generic-utils, in its  *)
(* two implementations:                                                    *)
(*   lib/type-utils/enum-like/enum-like.ts  ("type-utils")                 *)
(*   lib/enum-like.ts                       ("lib")                        *)
(* JavaScript values are modelled with their types, strings as sequences   *)
(* of characters, objects as heap cells holding their own properties in    *)
(* creation order.  The built-ins the code calls (Array.isArray, map,      *)
(* Object.keys, Object.fromEntries, typeof, !) are modelled by what        *)
(* ECMAScript defines them to do.                                          *)
(***************************************************************************)
EXTENDS Integers, Sequences, FiniteSets

VARIABLES heap, args, out

vars == <<heap, args, out>>

\* ------------------------------------------------------------------ bounds
MaxLen == 3
MaxProps == 2
MaxArgs == 2

\* ------------------------------------------------------------ JS values
Undefined == [t |-> "undefined", s |-> <<>>, n |-> 0]
Null == [t |-> "null", s |-> <<>>, n |-> 0]
Bool(b) == [t |-> "boolean", s |-> <<>>, n |-> IF b THEN 1 ELSE 0]
Num(n) == [t |-> "number", s |-> <<>>, n |-> n]
Str(s) == [t |-> "string", s |-> s, n |-> 0]
Ref(a) == [t |-> "ref", s |-> <<>>, n |-> a]

ArrayObj(elems) == [t |-> "array", elems |-> elems, props |-> <<>>]
PlainObj(props) == [t |-> "object", elems |-> <<>>, props |-> props]

Digits == <<"0", "1", "2", "3", "4", "5", "6", "7", "8", "9">>

\* Number::toString for a non-negative integer: its decimal digits.
RECURSIVE NumberToString(_)
NumberToString(n) ==
    IF n < 10 THEN <<Digits[n + 1]>>
    ELSE NumberToString(n \div 10) \o <<Digits[(n % 10) + 1]>>

IsDigit(c) == \E d \in 1..10 : Digits[d] = c
DigitVal(c) == (CHOOSE d \in 1..10 : Digits[d] = c) - 1

RECURSIVE StringToNumber(_)
StringToNumber(s) ==
    IF s = <<>> THEN 0
    ELSE 10 * StringToNumber(SubSeq(s, 1, Len(s) - 1)) + DigitVal(s[Len(s)])

\* A property key that is an array index: a canonical numeric string below
\* 2^32 - 1.  Keys of up to nine digits are all below that limit; longer digit
\* strings do not occur among the inputs.
IsArrayIndex(s) ==
    /\ Len(s) > 0
    /\ Len(s) <= 9
    /\ \A i \in 1..Len(s) : IsDigit(s[i])
    /\ (Len(s) = 1 \/ s[1] # "0")

\* ToPropertyKey on the values an entry's key can be here: a string is itself, a
\* number its decimal string.
ToPropertyKey(v) ==
    IF v.t = "string" THEN v.s
    ELSE IF v.t = "number" THEN NumberToString(v.n)
    ELSE IF v.t = "boolean" THEN (IF v.n = 1 THEN <<"t", "r", "u", "e">>
                                  ELSE <<"f", "a", "l", "s", "e">>)
    ELSE IF v.t = "null" THEN <<"n", "u", "l", "l">>
    ELSE <<"u", "n", "d", "e", "f", "i", "n", "e", "d">>

\* !param is true exactly for the falsy values.
ToBoolean(v) ==
    CASE v.t = "undefined" -> FALSE
      [] v.t = "null" -> FALSE
      [] v.t = "boolean" -> v.n = 1
      [] v.t = "number" -> v.n # 0
      [] v.t = "string" -> v.s # <<>>
      [] OTHER -> TRUE

IsArray(h, v) == v.t = "ref" /\ h[v.n].t = "array"

TypeOf(h, v) ==
    CASE v.t = "ref" -> "object"
      [] v.t = "null" -> "object"
      [] OTHER -> v.t

\* ------------------------------------------------------- own properties
HasProp(props, k) == \E i \in 1..Len(props) : props[i].k = k
PropIndex(props, k) == CHOOSE i \in 1..Len(props) : props[i].k = k

\* Variant: an existing key is deleted and defined again, so it moves to the end.
CreateDataProperty_moveToEnd(props, k, v) ==
    LET keep(p) == p.k # k
    IN Append(SelectSeq(props, keep), [k |-> k, v |-> v])

\* CreateDataProperty: a new key is added last, an existing key keeps its place
\* and takes the new value.
CreateDataProperty(props, k, v) ==
    IF HasProp(props, k)
    THEN [props EXCEPT ![PropIndex(props, k)] = [k |-> k, v |-> v]]
    ELSE Append(props, [k |-> k, v |-> v])

RECURSIVE SortAscending(_)
SortAscending(S) ==
    IF S = {} THEN <<>>
    ELSE LET m == CHOOSE x \in S : \A y \in S : StringToNumber(x) <= StringToNumber(y)
         IN <<m>> \o SortAscending(S \ {m})

\* OrdinaryOwnPropertyKeys: the array indices in ascending numeric order, then
\* the other string keys in creation order.
OwnPropertyKeys(props) ==
    LET keys == [i \in 1..Len(props) |-> props[i].k]
        notIndex(k) == ~IsArrayIndex(k)
    IN SortAscending({keys[i] : i \in {j \in 1..Len(keys) : IsArrayIndex(keys[j])}})
       \o SelectSeq(keys, notIndex)

GetProp(props, k) == IF HasProp(props, k) THEN props[PropIndex(props, k)].v ELSE Undefined

\* Variant: Object.values in the place of Object.keys.
ObjectKeys_values(h, v) ==
    IF v.t = "ref" /\ h[v.n].t = "object"
    THEN [throws |-> FALSE,
          keys |-> LET ks == OwnPropertyKeys(h[v.n].props)
                   IN [i \in 1..Len(ks) |-> GetProp(h[v.n].props, ks[i])]]
    ELSE [throws |-> v.t \in {"undefined", "null"}, keys |-> <<>>]

\* Object.keys(param): ToObject throws on undefined and null; a string's own
\* enumerable keys are its indices; a number or boolean wrapper has none.
ObjectKeys(h, v) ==
    CASE v.t \in {"undefined", "null"} -> [throws |-> TRUE, keys |-> <<>>]
      [] v.t = "string" ->
            [throws |-> FALSE,
             keys |-> [i \in 1..Len(v.s) |-> Str(NumberToString(i - 1))]]
      [] v.t = "ref" /\ h[v.n].t = "object" ->
            [throws |-> FALSE,
             keys |-> LET ks == OwnPropertyKeys(h[v.n].props)
                      IN [i \in 1..Len(ks) |-> Str(ks[i])]]
      [] v.t = "ref" /\ h[v.n].t = "array" ->
            [throws |-> FALSE,
             keys |-> [i \in 1..Len(h[v.n].elems) |-> Str(NumberToString(i - 1))]]
      [] OTHER -> [throws |-> FALSE, keys |-> <<>>]

\* Variant: keys.map((key, i) => [key, i])
KeysToEntries_withIndex(keys) == [i \in 1..Len(keys) |-> <<keys[i], Num(i - 1)>>]

\* keys.map((key) => [key, key])
KeysToEntries(keys) == [i \in 1..Len(keys) |-> <<keys[i], keys[i]>>]

\* Object.fromEntries: each entry in order, CreateDataProperty(obj, ToPropertyKey(key), value).
RECURSIVE FromEntries(_)
FromEntries(entries) ==
    IF entries = <<>> THEN <<>>
    ELSE LET e == entries[Len(entries)]
         IN CreateDataProperty(FromEntries(SubSeq(entries, 1, Len(entries) - 1)),
                               ToPropertyKey(e[1]), e[2])

\* ------------------------------------------------------------- outcomes
NoCall == [kind |-> "none", ref |-> 0]

\* Variant: the entries are written onto the first existing object (the input)
\* and that object is returned.
NewObject_ontoInput(h, props) ==
    IF Len(h) >= 1
    THEN [heap |-> [h EXCEPT ![1] = PlainObj(props)], out |-> [kind |-> "return", ref |-> 1]]
    ELSE [heap |-> Append(h, PlainObj(props)),
          out |-> [kind |-> "return", ref |-> Len(h) + 1]]

\* The returned object is a fresh heap cell.
NewObject(h, props) ==
    [heap |-> Append(h, PlainObj(props)), out |-> [kind |-> "return", ref |-> Len(h) + 1]]

ThrowTypeError(h) == [heap |-> h, out |-> [kind |-> "throw", ref |-> 0]]

\* Variant: the guard rejects the input with an error.
Fallback_throws(h) == ThrowTypeError(h)

\* return {} as { [K in keyof T]: K }
Fallback(h) == NewObject(h, <<>>)

\* The implementation signature binds the first argument only.
Param(a) == IF Len(a) >= 1 THEN a[1] ELSE Undefined

\* lib/type-utils/enum-like/enum-like.ts
EnumLikeTypeUtils(h, a) ==
    LET param == Param(a)
    IN IF ~ToBoolean(param) \/ (IsArray(h, param) /\ Len(h[param.n].elems) = 0)
       THEN Fallback(h)
       ELSE IF IsArray(h, param)
       THEN NewObject(h, FromEntries(KeysToEntries(h[param.n].elems)))
       ELSE IF TypeOf(h, param) = "object"
       THEN NewObject(h, FromEntries(KeysToEntries(ObjectKeys(h, param).keys)))
       ELSE Fallback(h)

\* lib/enum-like.ts
EnumLikeLib(h, a) ==
    LET param == Param(a)
    IN IF IsArray(h, param)
       THEN NewObject(h, FromEntries(KeysToEntries(h[param.n].elems)))
       ELSE IF ObjectKeys(h, param).throws
       THEN ThrowTypeError(h)
       ELSE NewObject(h, FromEntries(KeysToEntries(ObjectKeys(h, param).keys)))

\* ----------------------------------------------------------- the inputs
RECURSIVE SeqsUpTo(_, _)
SeqsUpTo(S, n) ==
    IF n = 0 THEN {<<>>}
    ELSE LET shorter == SeqsUpTo(S, n - 1)
         IN shorter \cup {Append(q, x) : q \in {r \in shorter : Len(r) = n - 1}, x \in S}

KeyStrings == {<<"a">>, <<"b">>, <<"2">>, <<"1", "0">>}
KeyValues == {Str(k) : k \in KeyStrings} \cup {Num(2)}
PropValues == {Num(0), Str(<<"a">>)}
Primitives ==
    {Undefined, Null, Bool(FALSE), Bool(TRUE), Num(0), Num(42),
     Str(<<>>), Str(<<"a">>), Str(<<"a", "b">>)}

\* An object literal { k1: v1, k2: v2, ... }.
RECURSIVE ObjectLiteral(_)
ObjectLiteral(entries) ==
    IF entries = <<>> THEN <<>>
    ELSE LET e == entries[Len(entries)]
         IN CreateDataProperty(ObjectLiteral(SubSeq(entries, 1, Len(entries) - 1)),
                               e[1], e[2])

InputArrays == {ArrayObj(q) : q \in SeqsUpTo(KeyValues, MaxLen)}
InputObjects ==
    {PlainObj(ObjectLiteral(q)) : q \in SeqsUpTo(KeyStrings \X PropValues, MaxProps)}

Impls == {"type-utils", "lib"}

Init ==
    /\ out = [i \in Impls |-> NoCall]
    /\ \/ /\ heap \in {<<o>> : o \in InputArrays \cup InputObjects}
          /\ args = <<Ref(1)>>
       \/ /\ heap = <<>>
          /\ args \in SeqsUpTo(Primitives, MaxArgs)

CallTypeUtils ==
    /\ out["type-utils"].kind = "none"
    /\ LET r == EnumLikeTypeUtils(heap, args)
       IN /\ heap' = r.heap
          /\ out' = [out EXCEPT !["type-utils"] = r.out]
    /\ UNCHANGED args

CallLib ==
    /\ out["lib"].kind = "none"
    /\ LET r == EnumLikeLib(heap, args)
       IN /\ heap' = r.heap
          /\ out' = [out EXCEPT !["lib"] = r.out]
    /\ UNCHANGED args

Next == CallTypeUtils \/ CallLib

Spec == Init /\ [][Next]_vars

\* ------------------------------------------------- reading a finished call
Called(i) == out[i].kind # "none"
Returned(i) == out[i].kind = "return"
Result(i) == heap[out[i].ref].props

InputIsSequence == IsArray(heap, Param(args))
InputIsObject == Param(args).t = "ref" /\ heap[Param(args).n].t = "object"
InputSeq == heap[Param(args).n].elems
InputProps == heap[Param(args).n].props

KeySet(props) == {props[j].k : j \in 1..Len(props)}
ValueSet(props) == {props[j].v : j \in 1..Len(props)}
Elements(q) == {q[j] : j \in 1..Len(q)}
IdentityValued(props) == \A j \in 1..Len(props) : props[j].v = Str(props[j].k)

PairwiseDistinct(q) == \A j, l \in 1..Len(q) : j # l => q[j] # q[l]
DistinctPropertyKeys(q) ==
    \A j, l \in 1..Len(q) : j # l => ToPropertyKey(q[j]) # ToPropertyKey(q[l])
SameKeySameValue(q) ==
    \A j, l \in 1..Len(q) : ToPropertyKey(q[j]) = ToPropertyKey(q[l]) => q[j] = q[l]

\* q without its repetitions, first occurrences kept in order.
RECURSIVE RemoveRepetitions(_)
RemoveRepetitions(q) ==
    IF q = <<>> THEN <<>>
    ELSE LET front == RemoveRepetitions(SubSeq(q, 1, Len(q) - 1))
         IN IF q[Len(q)] \in Elements(front) THEN front ELSE Append(front, q[Len(q)])

PropertyKeysOf(q) == [j \in 1..Len(q) |-> ToPropertyKey(q[j])]

\* What implementation i returns for the sequence q.
ResultFor(i, q) ==
    LET r == IF i = "lib" THEN EnumLikeLib(<<ArrayObj(q)>>, <<Ref(1)>>)
             ELSE EnumLikeTypeUtils(<<ArrayObj(q)>>, <<Ref(1)>>)
    IN r.heap[r.out.ref].props

SequenceIdentity(i) ==
    /\ Returned(i)
    /\ Len(Result(i)) = Len(InputSeq)
    /\ \A j \in 1..Len(InputSeq) :
          GetProp(Result(i), ToPropertyKey(InputSeq[j])) = InputSeq[j]
    /\ KeySet(Result(i)) \subseteq {ToPropertyKey(k) : k \in Elements(InputSeq)}

\* C1 (as stated): for every non-empty sequence K of pairwise distinct keys the
\* result has exactly len(K) entries, its value at each k of K is k, and it has
\* no key outside K.
C1_Original ==
    \A i \in Impls :
        (Called(i) /\ InputIsSequence /\ InputSeq # <<>> /\ PairwiseDistinct(InputSeq))
            => SequenceIdentity(i)

\* C1 (amended): for every non-empty sequence K of keys whose property-key
\* (string) forms are pairwise distinct, the result has exactly len(K) entries,
\* its value at each k of K is k, and it has no key outside K.
C1_DistinctKeysIdentity ==
    \A i \in Impls :
        (Called(i) /\ InputIsSequence /\ InputSeq # <<>> /\ DistinctPropertyKeys(InputSeq))
            => SequenceIdentity(i)

C1_Witness ==
    /\ \A i \in Impls : Returned(i)
    /\ InputIsSequence
    /\ InputSeq = <<Str(<<"b">>), Num(2), Str(<<"1", "0">>)>>
    /\ \A i \in Impls : Len(Result(i)) = Len(InputSeq)

\* C2: for every object M the result's key set is M's key set and every value
\* of the result equals its own key, whatever values M held.
C2_ObjectKeysIdentity ==
    \A i \in Impls :
        (Called(i) /\ InputIsObject)
            => /\ Returned(i)
               /\ KeySet(Result(i)) = KeySet(InputProps)
               /\ Len(Result(i)) = Len(InputProps)
               /\ IdentityValued(Result(i))

C2_Witness ==
    /\ \A i \in Impls : Returned(i)
    /\ InputIsObject
    /\ Len(InputProps) >= 2
    /\ \A j \in 1..Len(InputProps) : InputProps[j].v # Str(InputProps[j].k)
    /\ \A i \in Impls : IdentityValued(Result(i)) /\ Len(Result(i)) >= 2

\* C3 (as stated): for every input that is neither a sequence nor an object
\* (null, an absent value, a primitive) each implementation returns the empty
\* mapping and raises no error.
C3_FallbackEmpty ==
    \A i \in Impls :
        (Called(i) /\ ~InputIsSequence /\ ~InputIsObject)
            => (Returned(i) /\ Result(i) = <<>>)

HasRepetition(q) == \E j, l \in 1..Len(q) : j # l /\ q[j] = q[l]

SameAsWithoutRepetitions(i) ==
    /\ Returned(i)
    /\ Result(i) = ResultFor(i, RemoveRepetitions(InputSeq))
    /\ Len(Result(i)) = Len(RemoveRepetitions(InputSeq))
    /\ \A j \in 1..Len(InputSeq) :
          GetProp(Result(i), ToPropertyKey(InputSeq[j])) = InputSeq[j]

\* C4 (as stated): for every input sequence with repeated keys the result is the
\* one for the sequence with the repetitions removed: one entry per distinct
\* key, each mapped to itself.
C4_Original ==
    \A i \in Impls :
        (Called(i) /\ InputIsSequence /\ HasRepetition(InputSeq))
            => SameAsWithoutRepetitions(i)

\* C4 (amended): for every input sequence with repeated keys in which keys with
\* the same property-key (string) form are the same value, the result is the
\* one for the sequence with the repetitions removed: one entry per distinct
\* key, each mapped to itself.
C4_RepetitionsRemoved ==
    \A i \in Impls :
        (Called(i) /\ InputIsSequence /\ HasRepetition(InputSeq)
                   /\ SameKeySameValue(InputSeq))
            => SameAsWithoutRepetitions(i)

C4_Witness ==
    /\ \A i \in Impls : Returned(i)
    /\ InputIsSequence
    /\ InputSeq = <<Str(<<"a">>), Str(<<"a">>), Str(<<"b">>)>>
    /\ \A i \in Impls :
          Result(i) = <<[k |-> <<"a">>, v |-> Str(<<"a">>)], [k |-> <<"b">>, v |-> Str(<<"b">>)]>>

\* C5: EnumLike([]) and EnumLike({}) return the empty mapping and raise no error.
C5_EmptyInputs ==
    \A i \in Impls :
        (Called(i) /\ \/ (InputIsSequence /\ InputSeq = <<>>)
                      \/ (InputIsObject /\ InputProps = <<>>))
            => (Returned(i) /\ Result(i) = <<>>)

C5_Witness ==
    /\ \A i \in Impls : Returned(i) /\ Result(i) = <<>>
    /\ InputIsSequence
    /\ InputSeq = <<>>

\* C6: a call leaves every object that existed before it (the input among them)
\* with the same contents in the same order, and the mapping it returns is a
\* newly allocated object, not one that existed before the call.
C6_InputUnchanged ==
    [][ /\ \A a \in DOMAIN heap : a \in DOMAIN heap' /\ heap'[a] = heap[a]
        /\ \A i \in Impls :
              (out[i].kind = "none" /\ out'[i].kind = "return")
                  => (out'[i].ref \notin DOMAIN heap /\ out'[i].ref \in DOMAIN heap') ]_vars

C6_Witness ==
    /\ \A i \in Impls : Returned(i) /\ out[i].ref # Param(args).n
    /\ InputIsSequence
    /\ InputSeq = <<Str(<<"b">>), Str(<<"a">>), Str(<<"b">>)>>

\* C7 (as stated): called with string keys as separate arguments, EnumLike
\* returns the mapping whose keys are exactly those arguments, each mapped to
\* itself.
C7_VariadicKeys ==
    \A i \in Impls :
        (Called(i) /\ Len(args) >= 1 /\ \A j \in 1..Len(args) : args[j].t = "string")
            => /\ Returned(i)
               /\ KeySet(Result(i)) = {args[j].s : j \in 1..Len(args)}
               /\ IdentityValued(Result(i))

InputKeys == IF InputIsSequence THEN Elements(InputSeq)
             ELSE {Str(k) : k \in KeySet(InputProps)}
KeysAsValues(props) == {Str(k) : k \in KeySet(props)}

\* C8 (as stated): for every mapping R returned for a sequence or an object, the
\* set of R's values equals the set of R's keys, which equals the set of keys
\* supplied as input.
C8_Original ==
    \A i \in Impls :
        (Called(i) /\ Returned(i) /\ (InputIsSequence \/ InputIsObject))
            => /\ ValueSet(Result(i)) = KeysAsValues(Result(i))
               /\ KeysAsValues(Result(i)) = InputKeys

\* C8 (amended): for every mapping R returned for a sequence or an object, the
\* set of R's keys is the set of property-key (string) forms of the input keys,
\* every value of R is an input key stored under its own property-key form, and
\* when all input keys are strings the set of R's values equals the set of R's
\* keys, which equals the set of input keys.
C8_ValuesAreKeys ==
    \A i \in Impls :
        (Called(i) /\ Returned(i) /\ (InputIsSequence \/ InputIsObject))
            => /\ KeySet(Result(i)) = {ToPropertyKey(k) : k \in InputKeys}
               /\ \A j \in 1..Len(Result(i)) :
                     /\ Result(i)[j].v \in InputKeys
                     /\ ToPropertyKey(Result(i)[j].v) = Result(i)[j].k
               /\ (\A k \in InputKeys : k.t = "string")
                     => /\ ValueSet(Result(i)) = KeysAsValues(Result(i))
                        /\ KeysAsValues(Result(i)) = InputKeys

C8_Witness ==
    /\ \A i \in Impls : Returned(i)
    /\ InputIsSequence
    /\ InputSeq = <<Str(<<"a">>), Str(<<"2">>), Str(<<"b">>)>>
    /\ \A i \in Impls : ValueSet(Result(i)) = Elements(InputSeq)

\* C9 (as stated): the keys of the result are enumerated in the input's
\* iteration order: for a sequence the order of first occurrence of each key,
\* for an object the order of its own keys.
C9_Original ==
    \A i \in Impls :
        (Called(i) /\ Returned(i))
            => /\ InputIsSequence =>
                     OwnPropertyKeys(Result(i)) = RemoveRepetitions(PropertyKeysOf(InputSeq))
               /\ InputIsObject =>
                     OwnPropertyKeys(Result(i)) = OwnPropertyKeys(InputProps)

IndexKeysFirst(keys) ==
    LET notIndex(k) == ~IsArrayIndex(k)
    IN SortAscending({k \in Elements(keys) : IsArrayIndex(k)}) \o SelectSeq(keys, notIndex)

\* C9 (amended): for a sequence, the keys of the result are enumerated with the
\* array-index keys first in ascending numeric order, then the other keys in
\* the order of their first occurrence in the sequence; for an object, in the
\* order of its own keys.
C9_EnumerationOrder ==
    \A i \in Impls :
        (Called(i) /\ Returned(i))
            => /\ InputIsSequence =>
                     OwnPropertyKeys(Result(i))
                        = IndexKeysFirst(RemoveRepetitions(PropertyKeysOf(InputSeq)))
               /\ InputIsObject =>
                     OwnPropertyKeys(Result(i)) = OwnPropertyKeys(InputProps)

C9_Witness ==
    /\ \A i \in Impls : Returned(i)
    /\ InputIsSequence
    /\ InputSeq = <<Str(<<"b">>), Str(<<"a">>), Str(<<"b">>)>>
    /\ \A i \in Impls : OwnPropertyKeys(Result(i)) = <<<<"b">>, <<"a">>>>

\* C10 (as stated): on every input the two implementations either return equal
\* mappings or both raise an error.
C10_Equivalent ==
    (\A i \in Impls : Called(i))
        => \/ \A i \in Impls : out[i].kind = "throw"
           \/ /\ \A i \in Impls : Returned(i)
              /\ Result("lib") = Result("type-utils")

====
